---- MODULE Spec2Model ----
(***************************************************************************)
(* A model of the Crux-AI fact-checking backend: the four pipeline agents  *)
(* of agents.py (ScanAgent, VerifyAgent, ScoreAgent, CrisisAgent) and the  *)
(* request handlers of main.py that drive them over the in-memory list     *)
(* processed_claims.                                                       *)
(*                                                                         *)
(* Python values are modelled as follows.  A str is a TLA+ string (TLC     *)
(* evaluates Len, \o and SubSeq on strings, so substring tests, prefixes   *)
(* and lower() are computed character by character).  An Optional value is *)
(* a sequence of length 0 (None) or 1 (the value).  A list is a sequence.  *)
(* A pydantic model is a record.  Claim.timestamp (datetime.now) is not    *)
(* modelled.  An external collaborator (feed API, HTTP fetch, web search,  *)
(* language model) is an input of the action that calls it, drawn from a   *)
(* bounded set of outcomes: a value or a raised exception class.           *)
(***************************************************************************)
EXTENDS Integers, Sequences, FiniteSets, TLC

\* ---------------------------------------------------------------- bounds

\* Longest feed response (number of articles) a scan is given.
MaxFeed == 3

\* ------------------------------------------------------- Python values

None == <<>>
Some(x) == <<x>>

\* Python truthiness of an Optional[str]: None and "" are falsy.
Truthy(o) == o # None /\ o[1] # ""

\* dict.get(key, default) on a JSON field: None models an absent key,
\* Some(None) a key holding null, Some(Some(s)) a key holding the str s.
DictGet(field, default) == IF field = None THEN default ELSE field[1]

\* `a or b` on Optional[str] operands.
PyOr(a, b) == IF Truthy(a) THEN a ELSE b

\* pydantic validation of a required `str` field: None is rejected.
ValidStr(o) == o # None

\* ------------------------------------------------------------- strings

UpperCase == "ABCDEFGHIJKLMNOPQRSTUVWXYZ"
LowerCase == "abcdefghijklmnopqrstuvwxyz"

\* The lower-case letter of each upper-case letter.
LowerOf ==
    [c \in {SubSeq(UpperCase, i, i) : i \in 1..Len(UpperCase)} |->
        LET i == CHOOSE i \in 1..Len(UpperCase) : SubSeq(UpperCase, i, i) = c
        IN  SubSeq(LowerCase, i, i)]

\* str.lower() of one character.
LowerChar(c) == IF c \in DOMAIN LowerOf THEN LowerOf[c] ELSE c

RECURSIVE LowerFrom(_, _)
LowerFrom(s, i) ==
    IF i > Len(s) THEN "" ELSE LowerChar(SubSeq(s, i, i)) \o LowerFrom(s, i + 1)

\* str.lower()
Lower(s) == LowerFrom(s, 1)

\* `k in s` on two str: k occurs in s as a contiguous substring.
StrIn(k, s) == \E i \in 1..(Len(s) - Len(k) + 1) : SubSeq(s, i, i + Len(k) - 1) = k

\* str.startswith
StartsWith(s, p) == Len(s) >= Len(p) /\ SubSeq(s, 1, Len(p)) = p

\* ------------------------------------------------------------ models.py

Evidence(source, content, url) == [source |-> source, content |-> content, url |-> url]

\* Claim(...) with the defaults of models.py: id None, evidence [], score None.
Claim(id, text, source, status, evidence) ==
    [id |-> id, text |-> text, source |-> source, status |-> status,
     evidence |-> evidence, score |-> None]

\* ------------------------------------------------------------ the state

VARIABLES
    api_key,           \* ScanAgent.api_key: Optional[str] (NEWSDATA_API_KEY)
    client,            \* ScoreAgent.client is not None (GROQ_API_KEY truthy)
    processed_claims,  \* main.processed_claims
    next_uuid,         \* the number of the next uuid.uuid4() value
    op,                \* the operation that ran last
    args,              \* its inputs
    ret,               \* its result
    model_calls,       \* language-model calls the last operation issued
    scan_calls,        \* scan_agent.scan calls the last operation issued
    background_tasks   \* the scans trigger_scan handed to BackgroundTasks

vars ==
    <<api_key, client, processed_claims, next_uuid, op, args, ret, model_calls,
      scan_calls, background_tasks>>

\* The state of the server process that an agent call on its own leaves alone.
server == <<api_key, client, processed_claims, next_uuid, background_tasks>>

\* os.getenv gives None for an unset variable and may give "" for an empty one.
ApiKeys == {None, Some(""), Some("pub_key")}

Init ==
    /\ api_key \in {None, Some("pub_key")}
    /\ client \in BOOLEAN
    /\ processed_claims = <<>>
    /\ next_uuid = 1
    /\ op = "start"
    /\ args = None
    /\ ret = None
    /\ model_calls = 0
    /\ scan_calls = 0
    /\ background_tasks = <<>>

\* Catches without subclasses: a handler catches its own class only.
Catches_Exact(cls, exc) == exc # "" /\ cls = exc

\* Whether `except cls` catches an exception of class exc ("" is no
\* exception).  ConnectionError, Timeout and HTTPError are subclasses of
\* requests.exceptions.RequestException; every class used here is a subclass
\* of Exception.
Catches(cls, exc) ==
    /\ exc # ""
    /\ \/ cls = "Exception"
       \/ cls = exc
       \/ cls = "RequestException" /\ exc \in {"ConnectionError", "Timeout", "HTTPError"}

\* ------------------------------------------------------------ ScanAgent

MockData ==
    [c \in {"general-news", "politics", "health", "crisis", "finance", "tech-ai",
            "science", "crime", "international", "social"} |->
        CASE c = "general-news" -> "Breaking: Major developments in global affairs."
          [] c = "politics" -> "Election results show surprising turnout."
          [] c = "health" -> "New health guidelines announced by WHO."
          [] c = "crisis" -> "Emergency response teams deployed to affected areas."
          [] c = "finance" -> "Stock markets show mixed signals amid economic uncertainty."
          [] c = "tech-ai" -> "AI breakthrough announced by leading tech company."
          [] c = "science" -> "Scientists discover new insights into climate patterns."
          [] c = "crime" -> "Law enforcement reports decrease in crime rates."
          [] c = "international" -> "International summit addresses global challenges."
          [] c = "social" -> "Viral social media trend sparks global conversation."]

\* ScanAgent._get_mock_news_by_category
GetMockNewsByCategory(category) ==
    << Claim(None,
             IF category \in DOMAIN MockData THEN MockData[category]
             ELSE "Latest news update.",
             Some("mock_data"), "unverified", <<>>) >>

\* The fallback of ScanAgent.scan.
MockCrisisClaim ==
    Claim(None, "Breaking: Major earthquake reported in Japan.",
          Some("social_media_mock"), "unverified", <<>>)

\* One feed article is a record: is_dict (FALSE: the item is no dict, so
\* article.get raises AttributeError) and the JSON fields title, source_id,
\* description, link.
ArticleTitle(article) == DictGet(article.title, Some("No title"))
ArticleSource(article) == DictGet(article.source_id, Some("newsdata"))
ArticleContent(article) == PyOr(DictGet(article.description, Some("")), ArticleTitle(article))
ArticleUrl(article) == DictGet(article.link, Some(""))

\* Whether building Claim(text=title, ..., evidence=[Evidence(...)]) from the
\* article raises: the item is no dict, or a required str field is None.
ArticleRaises(article) ==
    \/ ~article.is_dict
    \/ ~ValidStr(ArticleTitle(article))
    \/ ~ValidStr(ArticleSource(article))
    \/ ~ValidStr(ArticleContent(article))
    \/ ~ValidStr(ArticleUrl(article))

ArticleClaim(article) ==
    Claim(None, ArticleTitle(article)[1], ArticleSource(article), "unverified",
          << Evidence(ArticleSource(article)[1], ArticleContent(article)[1],
                      ArticleUrl(article)[1]) >>)

\* NotSeen without the seen_titles test: every article becomes a claim.
NotSeen_NoDedup(title, seen_titles) == TRUE

\* `title not in seen_titles`
NotSeen(title, seen_titles) == title \notin seen_titles

\* The loop `for article in response['results']` from article i on, with the
\* claims built and the titles seen so far.  An exception ends the loop and
\* leaves `claims` as built up to then; `raised` is its class ("" for none):
\* article.get on an item that is no dict, or Claim(...) or Evidence(...)
\* refusing a None field.
RECURSIVE ScanLoop(_, _, _, _)
ScanLoop(results, i, claims, seen_titles) ==
    IF i > Len(results) THEN [claims |-> claims, raised |-> ""]
    ELSE LET article == results[i] IN
         IF ~article.is_dict THEN [claims |-> claims, raised |-> "AttributeError"]
         ELSE LET title == ArticleTitle(article) IN
              IF NotSeen(title, seen_titles)
              THEN IF ArticleRaises(article)
                   THEN [claims |-> claims, raised |-> "ValidationError"]
                   ELSE ScanLoop(results, i + 1, Append(claims, ArticleClaim(article)),
                                 seen_titles \cup {title})
              ELSE ScanLoop(results, i + 1, claims, seen_titles)

\* The try block of `if self.api_key:`: the claims built when the block is
\* left, and the class of the exception it was left by ("" for none).
\* feed.raises is the exception class the import or the api.news_api call
\* raises ("" when it returns); feed.response is None for a falsy response or
\* one without a 'results' key, and else Some(results), where results is None
\* for a non-iterable value (iterating it raises TypeError) or Some(list).
TryFetch(key, feed) ==
    IF ~Truthy(key) THEN [claims |-> <<>>, raised |-> ""]
    ELSE IF feed.raises # "" THEN [claims |-> <<>>, raised |-> feed.raises]
    ELSE IF feed.response = None THEN [claims |-> <<>>, raised |-> ""]
    ELSE IF feed.response[1] = None THEN [claims |-> <<>>, raised |-> "TypeError"]
    ELSE ScanLoop(feed.response[1][1], 1, <<>>, {})

\* `try: ... except ImportError ... except Exception ...`: both handlers only
\* log.  `raised` tells whether the try block raised, `escaped` is the class
\* of an exception neither handler catches ("" for none).
FetchClaims(key, feed) ==
    LET tried == TryFetch(key, feed)
    IN  [claims |-> tried.claims,
         raised |-> tried.raised # "",
         escaped |-> IF \/ tried.raised = ""
                        \/ Catches("ImportError", tried.raised)
                        \/ Catches("Exception", tried.raised)
                     THEN "" ELSE tried.raised]

\* ScanAgent.scan
scan(key, feed) ==
    LET claims == FetchClaims(key, feed).claims
    IN  IF claims = <<>> THEN <<MockCrisisClaim>> ELSE claims

\* ScanAgent.scan_by_category
scan_by_category(key, category, feed) ==
    LET claims == FetchClaims(key, feed).claims
    IN  IF claims = <<>> THEN GetMockNewsByCategory(category) ELSE claims

\* ----- inputs of the scanner

JsonTitles == {None, Some(None), Some(Some("Flood warning")), Some(Some("Test claim"))}

Articles ==
    [is_dict : {TRUE}, title : JsonTitles, source_id : {None},
     description : {None, Some(Some("Rivers rise."))},
     link : {Some(Some("http://news.example/a"))}]
    \cup
    [is_dict : {TRUE}, title : {Some(Some("Flood warning"))}, source_id : {Some(None)},
     description : {None}, link : {None}]
    \cup
    [is_dict : {FALSE}, title : {None}, source_id : {None}, description : {None},
     link : {None}]

RECURSIVE SeqsUpTo(_, _)
SeqsUpTo(S, n) ==
    IF n = 0 THEN {<<>>}
    ELSE LET shorter == SeqsUpTo(S, n - 1)
         IN  shorter \cup {Append(s, x) : s \in {t \in shorter : Len(t) = n - 1}, x \in S}

FeedOutcomes ==
    [raises : {"ImportError", "ConnectionError"}, response : {None}]
    \cup
    [raises : {""},
     response : {None, Some(None)} \cup {Some(Some(r)) : r \in SeqsUpTo(Articles, MaxFeed)}]

Categories == {"crisis", "health", "sports"}

ScanCalls ==
    [fn : {"scan"}, feed : FeedOutcomes, category : {""}]
    \cup
    [fn : {"scan_by_category"}, feed : FeedOutcomes, category : Categories]

\* The scanner alone: each behaviour is one call of scan or scan_by_category
\* on inputs drawn in the initial state.
InitScan ==
    /\ api_key \in ApiKeys
    /\ client = FALSE
    /\ processed_claims = <<>>
    /\ next_uuid = 1
    /\ op = "call"
    /\ args \in ScanCalls
    /\ ret = None
    /\ model_calls = 0
    /\ scan_calls = 0
    /\ background_tasks = <<>>

Scan ==
    /\ op = "call"
    /\ args.fn = "scan"
    /\ op' = "scan"
    /\ ret' = scan(api_key, args.feed)
    /\ UNCHANGED <<server, args, model_calls, scan_calls>>

ScanByCategory ==
    /\ op = "call"
    /\ args.fn = "scan_by_category"
    /\ op' = "scan_by_category"
    /\ ret' = scan_by_category(api_key, args.category, args.feed)
    /\ UNCHANGED <<server, args, model_calls, scan_calls>>

NextScan == Scan \/ ScanByCategory

SpecScan == InitScan /\ [][NextScan]_vars

Scanned == op \in {"scan", "scan_by_category"}

\* The fallback the call at hand returns when it built no claim.
Fallback == IF op = "scan" THEN <<MockCrisisClaim>> ELSE GetMockNewsByCategory(args.category)

\* The titles of the feed response, as the loop reads them (None when the
\* response carries no list).
FeedTitles ==
    IF args.feed.raises = "" /\ args.feed.response # None /\ args.feed.response[1] # None
    THEN LET r == args.feed.response[1][1]
         IN  [i \in 1..Len(r) |-> IF r[i].is_dict THEN r[i].title ELSE None]
    ELSE <<>>

\* C1: the claims one call of scan or scan_by_category returns have pairwise
\* distinct text, whatever the feed answered (repeated headlines included).
C1_DistinctHeadlines ==
    Scanned => \A i, j \in 1..Len(ret) : i # j => ret[i].text # ret[j].text

\* A feed response that repeats a headline after another one, both of which
\* the call returned once.
C1_Witness ==
    /\ op = "scan"
    /\ Len(FeedTitles) = 3
    /\ FeedTitles[1] = FeedTitles[3]
    /\ FeedTitles[1] # FeedTitles[2]
    /\ Len(ret) = 2
    /\ ret[1].text = "Flood warning"
    /\ ret[2].text = "Test claim"

\* C2 as claimed: with the credential absent, or with the feed call failing
\* at any point (part-way through building claims included), the call returns
\* exactly the one fallback claim.
C2_FallbackOnFailure ==
    Scanned =>
        ((~Truthy(api_key) \/ FetchClaims(api_key, args.feed).raised) => ret = Fallback)

\* ---------------------------------------------------------- VerifyAgent

\* max_results of the web search.
MaxResults == 3

\* soup.get_text()[:1000]
ContentLimit == 1000

Take(str, n) == IF Len(str) <= n THEN str ELSE SubSeq(str, 1, n)

\* str(x) of an Optional[str], as an f-string renders it.
Str(o) == IF o = None THEN "None" ELSE o[1]

\* The outcome of a step of verify: the claim as it stands and the class of
\* the exception that left the step uncaught ("" when it completed).
Step(claim, raised) == [claim |-> claim, raised |-> raised]

\* AppendEvidence starting the list over with the new entry.
AppendEvidence_Reset(claim, e) == [claim EXCEPT !.evidence = <<e>>]

\* claim.evidence.append(e)
AppendEvidence(claim, e) == [claim EXCEPT !.evidence = Append(@, e)]

\* The try block of `if link:`.  fetch.raises is the class of the exception
\* requests.get, raise_for_status or BeautifulSoup raises ("" for none),
\* fetch.msg its str(e); fetch.title is None for a page without <title>,
\* Some(None) for a <title> without a string, Some(Some(s)) otherwise;
\* fetch.text is soup.get_text().
LinkFetched(claim, link, fetch) ==
    LET title == IF fetch.title # None THEN fetch.title[1] ELSE Some(link)
        text_content == Take(fetch.text, ContentLimit)
        with_evidence ==
            AppendEvidence(claim,
                Evidence("User Link: " \o Str(title),
                         "Extracted content: " \o text_content \o "...", link))
    IN  IF with_evidence.text = ""
        THEN [with_evidence EXCEPT !.text = "Check content from " \o link]
        ELSE with_evidence

\* LinkRequestFailed recording the failure under an empty url.
LinkRequestFailed_NoUrl(claim, link, fetch) ==
    [claim EXCEPT !.evidence =
        Append(@, [source |-> "User Link",
                   content |-> "Failed to fetch content from " \o link \o ": " \o fetch.msg,
                   url |-> ""])]

\* except requests.exceptions.RequestException
LinkRequestFailed(claim, link, fetch) ==
    AppendEvidence(claim,
        Evidence("User Link",
                 "Failed to fetch content from " \o link \o ": " \o fetch.msg, link))

\* except Exception
LinkProcessingFailed(claim, link, fetch) ==
    AppendEvidence(claim,
        Evidence("User Link", "Error processing link: " \o fetch.msg, link))

\* `if link: try ... except RequestException ... except Exception ...`
ProcessLink(claim, link, fetch) ==
    IF ~Truthy(link) THEN Step(claim, "")
    ELSE IF fetch.raises = "" THEN Step(LinkFetched(claim, link[1], fetch), "")
    ELSE IF Catches("RequestException", fetch.raises)
         THEN Step(LinkRequestFailed(claim, link[1], fetch), "")
    ELSE IF Catches("Exception", fetch.raises)
         THEN Step(LinkProcessingFailed(claim, link[1], fetch), "")
    ELSE Step(claim, fetch.raises)

\* `if image_content:` (bytes are truthy when non-empty)
ProcessImage(claim, image_content) ==
    IF ~Truthy(image_content) THEN claim
    ELSE LET with_evidence ==
                 AppendEvidence(claim,
                     Evidence("User Image",
                              "Image received. (Vision analysis not yet implemented)",
                              "Uploaded Image"))
         IN  IF with_evidence.text = ""
             THEN [with_evidence EXCEPT !.text = "Verify uploaded image content"]
             ELSE with_evidence

ResultSource(r) == DictGet(r.title, Some("Unknown"))
ResultContent(r) == DictGet(r.body, Some(""))
ResultUrl(r) == DictGet(r.href, Some(""))

\* Evidence(source=..., content=..., url=...) raises on a None field.
ResultRaises(r) ==
    ~ValidStr(ResultSource(r)) \/ ~ValidStr(ResultContent(r)) \/ ~ValidStr(ResultUrl(r))

\* `for r in results: claim.evidence.append(Evidence(...))` from result i on;
\* an exception ends the loop with the entries appended so far kept.
RECURSIVE SearchLoop(_, _, _)
SearchLoop(claim, results, i) ==
    IF i > Len(results) THEN [claim |-> claim, raised |-> "", msg |-> ""]
    ELSE IF ResultRaises(results[i])
         THEN [claim |-> claim, raised |-> "ValidationError",
               msg |-> "1 validation error for Evidence"]
    ELSE SearchLoop(AppendEvidence(claim,
                        Evidence(ResultSource(results[i])[1], ResultContent(results[i])[1],
                                 ResultUrl(results[i])[1])),
                    results, i + 1)

\* except Exception of the search
SearchFailed(claim, msg) ==
    AppendEvidence(claim,
        Evidence("Search Error", "Failed to perform web search: " \o msg, ""))

\* `if claim.text: try ... except Exception ...`.  search.raises is the class
\* of the exception DDGS() or ddgs.text raises ("" for none), search.msg its
\* str(e), search.results the list ddgs.text returns.
PerformSearch(claim, search) ==
    IF claim.text = "" THEN Step(claim, "")
    ELSE LET tried == IF search.raises # ""
                      THEN [claim |-> claim, raised |-> search.raises, msg |-> search.msg]
                      ELSE SearchLoop(claim, search.results, 1)
         IN  IF tried.raised = "" THEN Step(tried.claim, "")
             ELSE IF Catches("Exception", tried.raised)
                  THEN Step(SearchFailed(tried.claim, tried.msg), "")
             ELSE Step(tried.claim, tried.raised)

\* verify with the image block ahead of the link block.
verify_ImageFirst(claim, link, image_content, fetch, search) ==
    LET linked == ProcessLink(ProcessImage(claim, image_content), link, fetch)
    IN  IF linked.raised # "" THEN linked ELSE PerformSearch(linked.claim, search)

\* VerifyAgent.verify: the claim returned, or the exception raised.  A block
\* after one that raised does not run.
verify(claim, link, image_content, fetch, search) ==
    LET linked == ProcessLink(claim, link, fetch)
    IN  IF linked.raised # "" THEN linked
        ELSE PerformSearch(ProcessImage(linked.claim, image_content), search)

\* ----- inputs of the verifier

Links == {None, Some(""), Some("http://site.example/p")}

Images == {None, Some(""), Some("PNG")}

FetchOutcomes ==
    [raises : {""}, msg : {""},
     title : {None, Some(None), Some(Some("Example Page"))},
     text : {"Floods hit the coast."}]
    \cup
    [raises : {"ConnectionError", "HTTPError"}, msg : {"404 Not Found"},
     title : {None}, text : {""}]
    \cup
    [raises : {"ParserError"}, msg : {"unknown markup"}, title : {None}, text : {""}]

SearchResults ==
    [title : {Some(Some("Flood report"))}, body : {Some(Some("Rivers rise."))},
     href : {Some(Some("http://a.example"))}]
    \cup
    [title : {None, Some(None)}, body : {None}, href : {None}]

SearchOutcomes ==
    [raises : {"RatelimitException"}, msg : {"202 Ratelimit"}, results : {<<>>}]
    \cup
    [raises : {""}, msg : {""}, results : SeqsUpTo(SearchResults, MaxResults)]

FeedEvidence == Evidence("newsdata", "Rivers rise.", "http://news.example/a")

VerifyInputClaims ==
    {Claim(None, t, None, "unverified", e) :
        t \in {"", "Test claim"}, e \in {<<>>, <<FeedEvidence>>}}

VerifyCalls ==
    [fn : {"verify"}, claim : VerifyInputClaims, link : Links, image_content : Images,
     fetch : FetchOutcomes, search : SearchOutcomes]

\* The verifier alone: one call of verify on inputs drawn in the initial state.
InitVerify ==
    /\ api_key = None
    /\ client = FALSE
    /\ processed_claims = <<>>
    /\ next_uuid = 1
    /\ op = "call"
    /\ args \in VerifyCalls
    /\ ret = None
    /\ model_calls = 0
    /\ scan_calls = 0
    /\ background_tasks = <<>>

Verify ==
    /\ op = "call"
    /\ args.fn = "verify"
    /\ op' = "verify"
    /\ ret' = verify(args.claim, args.link, args.image_content, args.fetch, args.search)
    /\ UNCHANGED <<server, args, model_calls, scan_calls>>

NextVerify == Verify

SpecVerify == InitVerify /\ [][NextVerify]_vars

\* The evidence entries the call at hand appended.
Appended ==
    SubSeq(ret.claim.evidence, Len(args.claim.evidence) + 1, Len(ret.claim.evidence))

IsLinkEvidence(e) == StartsWith(e.source, "User Link")
IsImageEvidence(e) == e.source = "User Image"

\* C3: given a link whose fetch fails, verify appends exactly one link
\* evidence entry, with url equal to the link and content recording the
\* failure, and returns the claim instead of raising.
C3_FailedLinkRecorded ==
    (op = "verify" /\ Truthy(args.link) /\ args.fetch.raises # "") =>
        /\ ret.raised = ""
        /\ Cardinality({i \in 1..Len(Appended) : IsLinkEvidence(Appended[i])}) = 1
        /\ Len(Appended) >= 1
        /\ IsLinkEvidence(Appended[1])
        /\ Appended[1].url = args.link[1]
        /\ StrIn(args.fetch.msg, Appended[1].content)
        /\ \/ StartsWith(Appended[1].content, "Failed to fetch content from ")
           \/ StartsWith(Appended[1].content, "Error processing link: ")

\* A failed fetch of a link given with an image and a text: the link entry is
\* followed by the image and search entries.
C3_Witness ==
    /\ op = "verify"
    /\ Truthy(args.link)
    /\ args.fetch.raises = "HTTPError"
    /\ ret.raised = ""
    /\ Len(Appended) = 3
    /\ Appended[1].content = "Failed to fetch content from http://site.example/p: 404 Not Found"
    /\ Appended[1].url = "http://site.example/p"

\* The stage an appended entry comes from, read off its source label: 1 for
\* link evidence, 2 for image evidence, 3 for search evidence.
Rank(e) == IF IsLinkEvidence(e) THEN 1 ELSE IF IsImageEvidence(e) THEN 2 ELSE 3

\* C4: whatever inputs were supplied and however the fetch and the search
\* ended, the entries one verify call appends are ordered link evidence, then
\* image evidence, then search evidence.
C4_EvidenceOrder ==
    op = "verify" =>
        /\ \A i, j \in 1..Len(Appended) : i < j => Rank(Appended[i]) <= Rank(Appended[j])
        /\ Truthy(args.link) => Len(Appended) >= 1 /\ Rank(Appended[1]) = 1
        /\ Truthy(args.image_content) =>
               \E i \in 1..Len(Appended) :
                   /\ Rank(Appended[i]) = 2
                   /\ \A j \in 1..(i - 1) : Rank(Appended[j]) = 1

\* A call given a link, an image and a text whose search found results
\* before failing: link, image, search result, search error.
C4_Witness ==
    /\ op = "verify"
    /\ Len(Appended) = 4
    /\ Appended[1].source = "User Link: Example Page"
    /\ Appended[2].source = "User Image"
    /\ Appended[3].source = "Flood report"
    /\ Appended[4].source = "Search Error"

\* ----------------------------------------------------------- ScoreAgent

\* Field(..., ge=0, le=100) of ScoreResponse
ScoreMin == 0
ScoreMax == 100

\* Literal["VERIFIED", "FALSE", "MIXED", "UNVERIFIED"]
Verdicts == {"VERIFIED", "FALSE", "MIXED", "UNVERIFIED"}

ScoreFields == {"final_score", "source_reliability", "evidence_strength", "consistency"}

ScoreResponse(final_score, source_reliability, evidence_strength, consistency, verdict) ==
    [final_score |-> final_score, source_reliability |-> source_reliability,
     evidence_strength |-> evidence_strength, consistency |-> consistency,
     verdict |-> verdict]

\* The fallback ScoreResponse of ScoreAgent.score.
UnverifiedScore == ScoreResponse(0, 0, 0, 0, "UNVERIFIED")

\* A JSON value of the model's reply is a record: type "int" with the number
\* n, "numstr" for a string int() parses to n, "str" for the string s, "null".
\* pydantic's validation of an `int` field with ge/le: a missing key, a null
\* or a non-numeric string is rejected; an int or a numeric string is taken as
\* the number and then held to the range.
ValidInt(field) ==
    /\ field # None
    /\ field[1].type \in {"int", "numstr"}
    /\ field[1].n >= ScoreMin
    /\ field[1].n <= ScoreMax

\* ValidVerdict taking any string for a verdict.
ValidVerdict_AnyString(field) == field # None /\ field[1].type = "str"

\* pydantic's validation of the Literal field: only the four strings pass.
ValidVerdict(field) ==
    /\ field # None
    /\ field[1].type = "str"
    /\ field[1].s \in Verdicts

\* ScoreResponse(**result): the validated model, or None when pydantic raises
\* ValidationError.
ParseScoreResponse(result) ==
    IF /\ \A f \in ScoreFields : ValidInt(result[f])
       /\ ValidVerdict(result.verdict)
    THEN Some(ScoreResponse(result.final_score[1].n, result.source_reliability[1].n,
                            result.evidence_strength[1].n, result.consistency[1].n,
                            result.verdict[1].s))
    ELSE None

\* The try block of score after the model call returned: json.loads of the
\* message content, result.get, ScoreResponse(**result).  reply.json is
\* "invalid" for text json.loads rejects (JSONDecodeError), "none" for a
\* message without content (TypeError), "array" for JSON that is no object
\* (AttributeError on result.get) and "object" for a JSON object, whose keys
\* reply.object holds.  The class of the exception raised, "" for none.
ReplyRaises(reply) ==
    CASE reply.json = "invalid" -> "JSONDecodeError"
      [] reply.json = "none" -> "TypeError"
      [] reply.json = "array" -> "AttributeError"
      [] OTHER -> IF ParseScoreResponse(reply.object) = None THEN "ValidationError" ELSE ""

\* HasClient without the `if not self.client` guard.
HasClient_Always(has_client) == TRUE

\* Whether score goes on to the model call: `if not self.client: return ...`
HasClient(has_client) == has_client

\* score asking the model a second time when the call failed or the reply
\* did not validate; the second call ends as the first did.
score_Retry(claim, has_client, model) ==
    IF ~HasClient(has_client)
    THEN [response |-> UnverifiedScore, calls |-> 0, raised |-> "", claim |-> claim]
    ELSE IF model.raises = "" /\ ReplyRaises(model.reply) = ""
         THEN [response |-> ParseScoreResponse(model.reply.object)[1], calls |-> 1,
               raised |-> "", claim |-> claim]
    ELSE [response |-> UnverifiedScore, calls |-> 2, raised |-> "", claim |-> claim]

\* ScoreAgent.score.  model.raises is the class of the exception
\* chat.completions.create raises ("" when it returns model.reply).  The
\* result holds the ScoreResponse returned, the number of model calls made,
\* the class of an exception left uncaught ("" for none) and the claim as the
\* call leaves it: score reads claim.text and claim.evidence and assigns to
\* neither.
score(claim, has_client, model) ==
    IF ~HasClient(has_client)
    THEN [response |-> UnverifiedScore, calls |-> 0, raised |-> "", claim |-> claim]
    ELSE LET exc == IF model.raises # "" THEN model.raises ELSE ReplyRaises(model.reply)
         IN  IF exc = ""
             THEN [response |-> ParseScoreResponse(model.reply.object)[1], calls |-> 1,
                   raised |-> "", claim |-> claim]
             ELSE IF Catches("JSONDecodeError", exc) \/ Catches("Exception", exc)
                  THEN [response |-> UnverifiedScore, calls |-> 1, raised |-> "",
                        claim |-> claim]
             ELSE [response |-> UnverifiedScore, calls |-> 1, raised |-> exc,
                   claim |-> claim]

\* ----- inputs of the scorer

JsonInt(k) == Some([type |-> "int", n |-> k, s |-> ""])
JsonNumStr(k) == Some([type |-> "numstr", n |-> k, s |-> ""])
JsonStr(str) == Some([type |-> "str", n |-> 0, s |-> str])
JsonNull == Some([type |-> "null", n |-> 0, s |-> ""])

JsonScores ==
    {None, JsonNull, JsonStr("high"), JsonNumStr(85), JsonNumStr(101)}
    \cup {JsonInt(k) : k \in {ScoreMin - 1, ScoreMin, ScoreMax, ScoreMax + 1}}

JsonVerdicts ==
    {None, JsonNull, JsonInt(1)}
    \cup {JsonStr(v) : v \in Verdicts \cup {"TRUE", "verified"}}

\* Replies that vary one sub-score and the verdict freely, and replies that
\* vary every sub-score over a smaller set.
ReplyObjects ==
    [final_score : JsonScores, source_reliability : {JsonInt(ScoreMax)},
     evidence_strength : {JsonInt(ScoreMin)}, consistency : {JsonNumStr(85)},
     verdict : JsonVerdicts]
    \cup
    [final_score : {JsonInt(ScoreMax)},
     source_reliability : {None, JsonInt(ScoreMin), JsonInt(ScoreMax + 1)},
     evidence_strength : {JsonStr("high"), JsonInt(ScoreMin - 1), JsonInt(ScoreMax)},
     consistency : {JsonNull, JsonInt(ScoreMin), JsonNumStr(101)},
     verdict : {JsonStr("MIXED"), JsonStr("TRUE")}]

EmptyObject ==
    [final_score |-> None, source_reliability |-> None, evidence_strength |-> None,
     consistency |-> None, verdict |-> None]

Replies ==
    [json : {"invalid", "none", "array"}, object : {EmptyObject}]
    \cup [json : {"object"}, object : ReplyObjects \cup {EmptyObject}]

ModelOutcomes ==
    [raises : {"APIConnectionError"}, reply : {[json |-> "none", object |-> EmptyObject]}]
    \cup [raises : {""}, reply : Replies]

ScoreInputClaims ==
    {Claim(None, t, None, "processing", e) :
        t \in {"", "Test claim"}, e \in {<<>>, <<FeedEvidence>>}}

ScoreCalls == [fn : {"score"}, claim : ScoreInputClaims, model : ModelOutcomes]

\* The scorer alone: one call of score on inputs drawn in the initial state.
InitScore ==
    /\ api_key = None
    /\ client \in BOOLEAN
    /\ processed_claims = <<>>
    /\ next_uuid = 1
    /\ op = "call"
    /\ args \in ScoreCalls
    /\ ret = None
    /\ model_calls = 0
    /\ scan_calls = 0
    /\ background_tasks = <<>>

Score ==
    /\ op = "call"
    /\ args.fn = "score"
    /\ op' = "score"
    /\ ret' = score(args.claim, client, args.model)
    /\ model_calls' = ret'.calls
    /\ UNCHANGED <<server, args, scan_calls>>

NextScore == Score

SpecScore == InitScore /\ [][NextScore]_vars

\* C5: with no model credential configured, score returns the all-zero
\* UNVERIFIED response for every claim and makes no model call.
C5_NoCredentialFallback ==
    (op = "score" /\ ~client) =>
        /\ ret.response.final_score = 0
        /\ ret.response.source_reliability = 0
        /\ ret.response.evidence_strength = 0
        /\ ret.response.consistency = 0
        /\ ret.response.verdict = "UNVERIFIED"
        /\ ret.raised = ""
        /\ model_calls = 0

\* No credential, and a model that would have answered VERIFIED with full
\* scores had it been asked.
C5_Witness ==
    /\ op = "score"
    /\ ~client
    /\ args.model.raises = ""
    /\ args.model.reply.json = "object"
    /\ args.model.reply.object.verdict = JsonStr("VERIFIED")
    /\ args.model.reply.object.final_score = JsonInt(100)
    /\ args.claim.text = "Test claim"
    /\ ret.response = UnverifiedScore

\* What the claim calls an invalid reply, read off the reply itself: it is
\* unparsable or no JSON object, lacks a field, carries a sub-score that is no
\* number or lies outside 0..100, or a verdict that is none of the four.
ReplyInvalid(reply) ==
    \/ reply.json # "object"
    \/ \E f \in ScoreFields \cup {"verdict"} : reply.object[f] = None
    \/ \E f \in ScoreFields :
           \/ reply.object[f][1].type \in {"str", "null"}
           \/ reply.object[f][1].n < 0
           \/ reply.object[f][1].n > 100
    \/ reply.object.verdict[1].type # "str"
    \/ reply.object.verdict[1].s \notin {"VERIFIED", "FALSE", "MIXED", "UNVERIFIED"}

\* C6: for every model reply, score returns sub-scores in 0..100 and one of
\* the four verdicts; an invalid reply (and a failed call) yields the all-zero
\* UNVERIFIED fallback, and a valid reply is returned as the model gave it.
C6_RepliesValidated ==
    op = "score" =>
        /\ \A f \in ScoreFields : ret.response[f] \in 0..100
        /\ ret.response.verdict \in {"VERIFIED", "FALSE", "MIXED", "UNVERIFIED"}
        /\ ret.raised = ""
        /\ (client /\ (args.model.raises # "" \/ ReplyInvalid(args.model.reply)))
               => ret.response = UnverifiedScore
        /\ (client /\ args.model.raises = "" /\ ~ReplyInvalid(args.model.reply))
               => /\ \A f \in ScoreFields : ret.response[f] = args.model.reply.object[f][1].n
                  /\ ret.response.verdict = args.model.reply.object.verdict[1].s

\* A reply whose only defect is a verdict string outside the four is answered
\* by the fallback.
C6_Witness ==
    /\ op = "score"
    /\ client
    /\ args.model.raises = ""
    /\ args.model.reply.json = "object"
    /\ args.model.reply.object.verdict = JsonStr("TRUE")
    /\ args.model.reply.object.final_score = JsonInt(100)
    /\ args.model.reply.object.consistency = JsonNumStr(85)
    /\ ret.response = UnverifiedScore

\* C20: score issues at most one model call per invocation: when the call
\* fails or its reply is invalid, that one call was the only one and the
\* fallback is what score returns.
C20_SingleModelCall ==
    op = "score" =>
        /\ model_calls <= 1
        /\ (client /\ (args.model.raises # "" \/ ReplyInvalid(args.model.reply))) =>
               /\ model_calls = 1
               /\ ret.response = UnverifiedScore

\* A model call that fails with a connection error: one call, the fallback.
C20_Witness ==
    /\ op = "score"
    /\ client
    /\ args.model.raises = "APIConnectionError"
    /\ model_calls = 1
    /\ ret.response = UnverifiedScore
    /\ ret.raised = ""

\* ---------------------------------------------------------- CrisisAgent

\* Longest claim batch detect_crisis is given on its own.
MaxBatch == 2

\* The keyword list of detect_crisis, in its order.
Keywords ==
    << "earthquake", "pandemic", "violence", "tsunami", "terror", "flood", "war",
       "attack", "assassinated", "airstrike", "conflict", "dead", "killed", "crisis",
       "warning", "strike", "military", "navy", "russia", "israel", "lebanon", "gaza",
       "ukraine", "iran", "missile", "bomb", "blast", "explosion", "fire", "wildfire",
       "storm", "hurricane", "tornado", "typhoon", "cyclone", "weather", "heat",
       "emergency", "rescue", "police", "arrest", "shoot", "gun", "crime", "murder",
       "crash", "accident", "disaster", "danger", "threat", "alert", "breaking" >>

\* MatchedText without lower().
MatchedText_CaseSensitive(text) == text

\* The text the keywords are looked up in: claim.text.lower()
MatchedText(text) == Lower(text)

\* [k for k in keywords if k in claim.text.lower()]
KeywordsIn(text) ==
    LET lowered == MatchedText(text)
    IN  SelectSeq(Keywords, LAMBDA k : StrIn(k, lowered))

\* The texts the model's claims carry most often.
FrequentTexts ==
    {"", "Test claim", "Major earthquake reported", "EARTHQUAKE in Chile",
     "Airstrike then war", "Flood warning", "Latest news update.", "No title",
     "Claim from: http://site.example/p",
     "Breaking: Major earthquake reported in Japan."}

\* KeywordsIn of the frequent texts, computed once.
KeywordsInFrequent == [text \in FrequentTexts |-> KeywordsIn(text)]

\* detected_keywords of one claim.
DetectedKeywords(text) ==
    IF text \in FrequentTexts THEN KeywordsInFrequent[text] ELSE KeywordsIn(text)

\* str(hash(claim.text)): a function of the text, fixed for the life of the
\* process; the text itself stands for its hash.
AlertId(text) == text

CrisisAlert(claim, detected_keywords) ==
    [id |-> AlertId(claim.text), title |-> "Potential Crisis Detected",
     severity |-> "HIGH", region |-> "Unknown", verified |-> (claim.status = "verified"),
     keywords |-> detected_keywords, description |-> claim.text]

\* CrisisLoop looking at the first claim of the batch only.
CrisisLoop_FirstOnly(claims, i, alerts) ==
    IF claims = <<>> \/ MatchedText(claims[1].text) = "" THEN <<>>
    ELSE LET found == SelectSeq(Keywords, LAMBDA k : StrIn(k, MatchedText(claims[1].text)))
         IN  IF found = <<>> THEN <<>>
             ELSE << [id |-> claims[1].text, title |-> "Potential Crisis Detected",
                      severity |-> "HIGH", region |-> "Unknown",
                      verified |-> (claims[1].status = "verified"),
                      keywords |-> found, description |-> claims[1].text] >>

\* `for claim in claims: ... if detected_keywords: alerts.append(...)`
RECURSIVE CrisisLoop(_, _, _)
CrisisLoop(claims, i, alerts) ==
    IF i > Len(claims) THEN alerts
    ELSE LET detected_keywords == DetectedKeywords(claims[i].text)
         IN  CrisisLoop(claims, i + 1,
                        IF detected_keywords # <<>>
                        THEN Append(alerts, CrisisAlert(claims[i], detected_keywords))
                        ELSE alerts)

\* RecommendedActions without the `if alerts` test.
RecommendedActions_Always(alerts) == <<"Monitor situation", "Verify sources">>

\* ["Monitor situation", "Verify sources"] if alerts else []
RecommendedActions(alerts) ==
    IF alerts # <<>> THEN <<"Monitor situation", "Verify sources">> ELSE <<>>

\* CrisisAgent.detect_crisis
detect_crisis(claims) ==
    LET alerts == CrisisLoop(claims, 1, <<>>)
    IN  [crisis_detected |-> Len(alerts) > 0, alerts |-> alerts,
         recommended_actions |-> RecommendedActions(alerts)]

\* ----- inputs of the crisis detector

CrisisTexts ==
    {"", "Test claim", "Major earthquake reported", "EARTHQUAKE in Chile",
     "Airstrike then war", "Flood warning", "Latest news update."}

CrisisInputClaims ==
    {Claim(None, t, None, st, <<>>) : t \in CrisisTexts, st \in {"unverified", "verified"}}

CrisisCalls == [fn : {"detect_crisis"}, claims : SeqsUpTo(CrisisInputClaims, MaxBatch)]

\* The crisis detector alone: one call of detect_crisis on a batch drawn in
\* the initial state.
InitCrisis ==
    /\ api_key = None
    /\ client = FALSE
    /\ processed_claims = <<>>
    /\ next_uuid = 1
    /\ op = "call"
    /\ args \in CrisisCalls
    /\ ret = None
    /\ model_calls = 0
    /\ scan_calls = 0
    /\ background_tasks = <<>>

DetectCrisis ==
    /\ op = "call"
    /\ args.fn = "detect_crisis"
    /\ op' = "detect_crisis"
    /\ ret' = detect_crisis(args.claims)
    /\ UNCHANGED <<server, args, model_calls, scan_calls>>

NextCrisis == DetectCrisis

SpecCrisis == InitCrisis /\ [][NextCrisis]_vars

\* The keywords Python finds in the sample texts (k in text.lower(), taken in
\* keyword-list order), written out by hand.
ExpectedKeywords(text) ==
    CASE text = "Major earthquake reported" -> <<"earthquake">>
      [] text = "EARTHQUAKE in Chile" -> <<"earthquake">>
      [] text = "Airstrike then war" -> <<"war", "airstrike", "strike">>
      [] text = "Flood warning" -> <<"flood", "war", "warning">>
      [] OTHER -> <<>>

\* The positions of the batch's claims whose lowercased text contains a
\* keyword, in batch order.
RECURSIVE MatchingFrom(_, _)
MatchingFrom(claims, i) ==
    IF i > Len(claims) THEN <<>>
    ELSE IF LET lowered == Lower(claims[i].text)
            IN  \E n \in 1..Len(Keywords) : StrIn(Keywords[n], lowered)
         THEN <<i>> \o MatchingFrom(claims, i + 1)
         ELSE MatchingFrom(claims, i + 1)

\* s lists, in keyword-list order and without repeats, exactly the keywords
\* that occur in the lowercased text.
ListsMatchingKeywords(s, text) ==
    /\ \A n \in 1..Len(s) : \E m \in 1..Len(Keywords) : Keywords[m] = s[n]
    /\ \A n, m \in 1..Len(s) :
           n < m => (CHOOSE a \in 1..Len(Keywords) : Keywords[a] = s[n])
                      < (CHOOSE a \in 1..Len(Keywords) : Keywords[a] = s[m])
    /\ LET lowered == Lower(text)
       IN  \A m \in 1..Len(Keywords) :
               StrIn(Keywords[m], lowered) <=> (\E n \in 1..Len(s) : s[n] = Keywords[m])

\* C7: detect_crisis emits an alert for a claim exactly when the claim's
\* lowercased text contains a keyword, one alert per such claim in batch
\* order, and the alert's keywords are exactly the matching keywords in
\* keyword-list order; "earthquake" in any letter case is found.
C7_AlertIffKeyword ==
    op = "detect_crisis" =>
        LET matching == MatchingFrom(args.claims, 1)
        IN  /\ Len(ret.alerts) = Len(matching)
            /\ \A n \in 1..Len(matching) :
                   /\ ret.alerts[n].description = args.claims[matching[n]].text
                   /\ ListsMatchingKeywords(ret.alerts[n].keywords,
                                            args.claims[matching[n]].text)
                   /\ ret.alerts[n].keywords = ExpectedKeywords(ret.alerts[n].description)
            /\ \A i \in 1..Len(args.claims) :
                   ExpectedKeywords(args.claims[i].text) # <<>> =>
                       \E n \in 1..Len(matching) : matching[n] = i

\* A batch of an upper-case "EARTHQUAKE" text and a text with three keywords
\* in another order than the list's.
C7_Witness ==
    /\ op = "detect_crisis"
    /\ Len(args.claims) = 2
    /\ args.claims[1].text = "EARTHQUAKE in Chile"
    /\ args.claims[2].text = "Airstrike then war"
    /\ Len(ret.alerts) = 2
    /\ ret.alerts[1].keywords = <<"earthquake">>
    /\ ret.alerts[2].keywords = <<"war", "airstrike", "strike">>

\* C8: crisis_detected is true iff alerts is non-empty, recommended_actions
\* is the fixed two-item list when alerts is non-empty and empty otherwise,
\* and a batch without a keyword match gives False, no alerts and no actions.
C8_ResponseShape ==
    op = "detect_crisis" =>
        /\ ret.crisis_detected <=> Len(ret.alerts) >= 1
        /\ Len(ret.alerts) >= 1 =>
               ret.recommended_actions = <<"Monitor situation", "Verify sources">>
        /\ Len(ret.alerts) = 0 => ret.recommended_actions = <<>>
        /\ (\A i \in 1..Len(args.claims) : ExpectedKeywords(args.claims[i].text) = <<>>) =>
               /\ ret.crisis_detected = FALSE
               /\ ret.alerts = <<>>
               /\ ret.recommended_actions = <<>>

\* A batch of two claims without a keyword, answered with no crisis.
C8_Witness ==
    /\ op = "detect_crisis"
    /\ Len(args.claims) = 2
    /\ args.claims[1].text = "Test claim"
    /\ args.claims[2].text = "Latest news update."
    /\ ret.crisis_detected = FALSE
    /\ ret.alerts = <<>>
    /\ ret.recommended_actions = <<>>

\* -------------------------------------------------------------- main.py

\* Most claims the server stores before it stops taking requests that add.
MaxClaims == 2

\* `text: str = Form(None)`: a Form parameter is bound from a form-encoded
\* body (urlencoded or multipart) only; with any other body, a JSON one
\* included, the parameter keeps its default None.
FormParam(request, name) ==
    IF request.encoding = "form" THEN request.body[name] ELSE None

\* status: Literal["unverified", "verified", "processing"]
ClaimStatuses == {"unverified", "verified", "processing"}

\* StatusOf without the assignment: the claim keeps the status it was
\* created with.
StatusOf_Unset(verdict) == "processing"

\* Set status based on score.  Claim does not validate on assignment, so the
\* value assigned is the value stored.
StatusOf(verdict) ==
    IF verdict = "VERIFIED" THEN "verified"
    ELSE IF verdict = "FALSE" THEN "false"
    ELSE "unverified"

\* The `if image:` block of verify_claim: the analysis, or the error dict
\* when reading or analysing the upload raises.
ImageAnalysis(image, analysis) ==
    IF image = None THEN None
    ELSE IF analysis.raises = ""
         THEN Some([error |-> None, message |-> None, results |-> Some("analysis")])
    ELSE Some([error |-> Some(analysis.msg), message |-> Some("Failed to analyze image"),
               results |-> None])

\* The `if text or link:` block of verify_claim for the uuid given: the claim
\* after verify, score and the status assignment, and the score.  The image
\* is not handed to verify_agent.verify.
VerifiedClaim(text, link, uuid, fetch, search, has_client, model) ==
    LET claim_text == IF Truthy(text) THEN text[1] ELSE "Claim from: " \o Str(link)
        claim == Claim(Some(uuid), claim_text, None, "processing", <<>>)
        verified == verify(claim, link, None, fetch, search)
        scored == score(verified.claim, has_client, model)
    IN  [claim |-> [scored.claim EXCEPT !.status = StatusOf(scored.response.verdict)],
         score |-> scored.response, calls |-> scored.calls]

\* ----- inputs of the server

NoFetch == [raises |-> "", msg |-> "", title |-> None, text |-> ""]
NoSearch == [raises |-> "", msg |-> "", results |-> <<>>]
ModelDown == [raises |-> "APIConnectionError", reply |-> [json |-> "none", object |-> EmptyObject]]
NoAnalysis == [raises |-> "", msg |-> ""]
NoFeed == [raises |-> "ConnectionError", response |-> None]

FormBody(text, link, image) == [text |-> text, link |-> link, image |-> image]

\* Form-encoded submissions of every combination of text, link and image, and
\* the JSON body of test_verify_claim.
ServerRequests ==
    [encoding : {"form"},
     body : {FormBody(Some("Test claim"), None, None),
             FormBody(Some("Major earthquake reported"), None, None),
             FormBody(None, Some("http://site.example/p"), None),
             FormBody(Some("Test claim"), Some("http://site.example/p"), None),
             FormBody(None, None, Some("PNG")),
             FormBody(Some("Test claim"), None, Some("PNG")),
             FormBody(None, Some("http://site.example/p"), Some("PNG")),
             FormBody(Some("Test claim"), Some("http://site.example/p"), Some("PNG")),
             FormBody(None, None, None)}]
    \cup
    [encoding : {"json"}, body : {FormBody(Some("Test claim"), None, None)}]

\* The page of the submitted link, fetched.
ServerFetchOutcomes ==
    {NoFetch,
     [raises |-> "", msg |-> "", title |-> Some(Some("Example Page")),
      text |-> "Floods hit the coast."]}

\* The web search, answered with one result.
ServerSearchOutcomes ==
    {NoSearch,
     [raises |-> "", msg |-> "",
      results |-> << [title |-> Some(Some("Flood report")),
                      body |-> Some(Some("Rivers rise.")),
                      href |-> Some(Some("http://a.example"))] >>]}

ScoreReply(n, verdict) ==
    [raises |-> "",
     reply |-> [json |-> "object",
                object |-> [final_score |-> JsonInt(n), source_reliability |-> JsonInt(n),
                            evidence_strength |-> JsonInt(n), consistency |-> JsonInt(n),
                            verdict |-> JsonStr(verdict)]]]

ServerModelOutcomes == {ModelDown, ScoreReply(90, "VERIFIED"), ScoreReply(10, "FALSE")}

ServerImageOutcomes == {NoAnalysis, [raises |-> "OSError", msg |-> "read failed"]}

ServerFeedOutcomes ==
    {NoFeed,
     [raises |-> "",
      response |-> Some(Some(<< [is_dict |-> TRUE, title |-> Some(Some("Test claim")),
                                 source_id |-> None, description |-> None,
                                 link |-> None] >>))]}

\* verify_claim answering one request, with the outcomes its collaborators
\* have for it.  The handler is a coroutine that does not await before its
\* append, so the event loop runs it up to there in one piece.
VerifyRequest(request, fetch, search, model, analysis) ==
    LET text == FormParam(request, "text")
        link == FormParam(request, "link")
        image == FormParam(request, "image")
        done == VerifiedClaim(text, link, next_uuid, fetch, search, client, model)
    IN  /\ op' = "verify_claim"
        /\ args' = [request |-> request]
        /\ IF Truthy(text) \/ Truthy(link)
           THEN /\ processed_claims' = Append(processed_claims, done.claim)
                /\ next_uuid' = next_uuid + 1
                /\ model_calls' = done.calls
                /\ ret' = [claim |-> Some(done.claim), score |-> Some(done.score),
                           image_analysis |-> ImageAnalysis(image, analysis)]
           ELSE /\ UNCHANGED <<processed_claims, next_uuid>>
                /\ model_calls' = 0
                /\ ret' = [claim |-> None, score |-> None,
                           image_analysis |-> ImageAnalysis(image, analysis)]
        /\ scan_calls' = 0
        /\ UNCHANGED <<api_key, client, background_tasks>>

\* POST /api/verify
VerifyClaim ==
    \E request \in ServerRequests, fetch \in ServerFetchOutcomes,
       search \in ServerSearchOutcomes, model \in ServerModelOutcomes,
       analysis \in ServerImageOutcomes :
        LET text == FormParam(request, "text")
            link == FormParam(request, "link")
            image == FormParam(request, "image")
        IN  /\ Len(processed_claims) < MaxClaims
            \* a collaborator the request does not reach has no outcome to vary
            /\ fetch = NoFetch <=> ~Truthy(link)
            /\ search = NoSearch <=> ~(Truthy(text) \/ Truthy(link))
            /\ ((Truthy(text) \/ Truthy(link)) /\ client) \/ model = ModelDown
            /\ image # None \/ analysis = NoAnalysis
            /\ VerifyRequest(request, fetch, search, model, analysis)

\* GET /api/claims.  The list returned is held in a record, as the result
\* of every other endpoint is, so that any two results can be compared.
GetClaims ==
    /\ op' = "get_claims"
    /\ args' = None
    /\ ret' = [claims |-> processed_claims]
    /\ model_calls' = 0
    /\ scan_calls' = 0
    /\ UNCHANGED server

\* FreshScan without the test: check_crisis scans on every request.
FreshScan_Always(claims) == TRUE

\* `if not claims_to_check:` whether check_crisis scans for breaking news.
FreshScan(claims) == claims = <<>>

\* The claims check_crisis hands to detect_crisis: the processed claims, or
\* a fresh scan when there are none.
ClaimsToCheck(claims, key, feed) == IF FreshScan(claims) THEN scan(key, feed) ELSE claims

\* CheckCrisis keeping the claims of its fresh scan in processed_claims.
CheckCrisis_Caching ==
    \E feed \in ServerFeedOutcomes :
        /\ processed_claims = <<>> \/ feed = NoFeed
        /\ op' = "check_crisis"
        /\ args' = None
        /\ ret' = detect_crisis(ClaimsToCheck(processed_claims, api_key, feed))
        /\ model_calls' = 0
        /\ scan_calls' = IF FreshScan(processed_claims) THEN 1 ELSE 0
        /\ processed_claims' = ClaimsToCheck(processed_claims, api_key, feed)
        /\ UNCHANGED <<api_key, client, next_uuid, background_tasks>>

\* GET /api/crisis
CheckCrisis ==
    \E feed \in ServerFeedOutcomes :
        \* the feed is asked only when no claim is stored
        /\ processed_claims = <<>> \/ feed = NoFeed
        /\ op' = "check_crisis"
        /\ args' = None
        /\ ret' = detect_crisis(ClaimsToCheck(processed_claims, api_key, feed))
        /\ model_calls' = 0
        /\ scan_calls' = IF FreshScan(processed_claims) THEN 1 ELSE 0
        /\ UNCHANGED server

Next == VerifyClaim \/ GetClaims \/ CheckCrisis

Spec == Init /\ [][Next]_vars

\* C9 as claimed: a non-empty text submitted the way test_verify_claim does,
\* as a JSON body {text: ...}, with no credentials configured, is answered
\* with a claim carrying that text and a score whose verdict is UNVERIFIED.
C9_JsonTextVerified ==
    (/\ op = "verify_claim"
     /\ args.request.encoding = "json"
     /\ Truthy(args.request.body.text)
     /\ ~Truthy(api_key)
     /\ ~client) =>
        /\ ret.claim # None
        /\ ret.claim[1].text = args.request.body.text[1]
        /\ ret.score # None
        /\ ret.score[1].verdict = "UNVERIFIED"

\* The processed claims at or before position i that carry a crisis keyword.
HoldsKeywordClaim ==
    \E i \in 1..Len(processed_claims) :
        \E n \in 1..Len(Keywords) : StrIn(Keywords[n], processed_claims[i].text)

\* C10: whenever the processed-claim list holds a claim whose text contains
\* a crisis keyword, whatever was stored before it, the crisis endpoint
\* answers crisis_detected = true with a non-empty alerts list whose first
\* alert is titled "Potential Crisis Detected".
C10_StoredKeywordClaimAlerts ==
    (op = "check_crisis" /\ HoldsKeywordClaim) =>
        /\ ret.crisis_detected = TRUE
        /\ Len(ret.alerts) >= 1
        /\ ret.alerts[1].title = "Potential Crisis Detected"

\* The list of the test, reached through the endpoint: a claim without a
\* keyword stored first, then "Major earthquake reported" with status
\* verified, then the crisis check.
C10_Witness ==
    /\ op = "check_crisis"
    /\ Len(processed_claims) = 2
    /\ processed_claims[1].text = "Test claim"
    /\ processed_claims[2].text = "Major earthquake reported"
    /\ processed_claims[2].status = "verified"
    /\ ret.crisis_detected = TRUE
    /\ Len(ret.alerts) = 1
    /\ ret.alerts[1].verified = TRUE
    /\ ret.alerts[1].description = "Major earthquake reported"

\* ------------------------------------------ main.py, the background scans

\* Most scans triggered in one behaviour.
MaxTasks == 2

\* background_tasks.add_task(background_scan, request.source_url): the task
\* as queued and then, once it runs, the frame of background_scan, which is
\* the list scan returned and the index of the claim its loop is at.
Task(source_url) ==
    [source_url |-> source_url, pc |-> "queued", new_claims |-> <<>>, i |-> 1]

SourceUrls == {"http://feed.example/rss"}

\* POST /api/scan: queues the scan and answers.
TriggerScan ==
    \E source_url \in SourceUrls :
        /\ Len(background_tasks) < MaxTasks
        /\ op' = "trigger_scan"
        /\ args' = [request |-> [source_url |-> source_url]]
        /\ ret' = [message |-> "Scan initiated for " \o source_url]
        /\ background_tasks' = Append(background_tasks, Task(source_url))
        /\ model_calls' = 0
        /\ scan_calls' = 0
        /\ UNCHANGED <<api_key, client, processed_claims, next_uuid>>

\* `new_claims = scan_agent.scan(source_url)`; scan does not read its
\* source_url.
StartScan(task, key, feed) ==
    [task EXCEPT !.pc = IF scan(key, feed) = <<>> THEN "done" ELSE "loop",
                 !.new_claims = scan(key, feed), !.i = 1]

\* IdentifiedClaim without the assignment: the claim keeps the id scan gave it.
IdentifiedClaim_NoId(task, uuid) == task.new_claims[task.i]

\* `claim.id = str(uuid.uuid4())` for the claim the loop is at
IdentifiedClaim(task, uuid) == [task.new_claims[task.i] EXCEPT !.id = Some(uuid)]

\* AppendScanned putting the claim at the head of the list.
AppendScanned_AtHead(claims, task, uuid) == <<IdentifiedClaim(task, uuid)>> \o claims

\* AppendScanned as an update of a list the thread read earlier: when
\* another thread appended since this scan's last append, the claim is
\* written over that entry.
AppendScanned_Unlocked(claims, task, uuid) ==
    IF task.i > 1 /\ claims[Len(claims)] # task.new_claims[task.i - 1]
    THEN [claims EXCEPT ![Len(claims)] = IdentifiedClaim(task, uuid)]
    ELSE Append(claims, IdentifiedClaim(task, uuid))

\* `processed_claims.append(claim)`.  The interpreter runs list.append as one
\* step under its lock, also when another thread appends to the same list.
AppendScanned(claims, task, uuid) == Append(claims, IdentifiedClaim(task, uuid))

\* The frame after one iteration of `for claim in new_claims`; the loop and
\* the function end after the last claim.
NextIteration(task, uuid) ==
    [task EXCEPT !.new_claims[task.i] = IdentifiedClaim(task, uuid),
                 !.i = task.i + 1,
                 !.pc = IF task.i + 1 > Len(task.new_claims) THEN "done" ELSE "loop"]

\* A feed answer of two headlines.
TwoHeadlines ==
    [raises |-> "",
     response |-> Some(Some(<< [is_dict |-> TRUE, title |-> Some(Some("Flood warning")),
                                source_id |-> None, description |-> None, link |-> None],
                               [is_dict |-> TRUE, title |-> Some(Some("Test claim")),
                                source_id |-> None, description |-> None,
                                link |-> None] >>))]

BackgroundFeedOutcomes == {NoFeed, TwoHeadlines}

\* background_scan up to its loop.  Starlette runs the task after the
\* response is sent; background_scan is a plain function, so it runs in a
\* thread of the pool, beside the event loop and the other tasks.
BackgroundScan ==
    \E t \in 1..Len(background_tasks), feed \in BackgroundFeedOutcomes :
        /\ background_tasks[t].pc = "queued"
        \* without a key the feed is not asked
        /\ Truthy(api_key) \/ feed = NoFeed
        /\ background_tasks' =
               [background_tasks EXCEPT ![t] = StartScan(@, api_key, feed)]
        /\ op' = "background_scan"
        /\ args' = [task |-> t]
        /\ ret' = None
        /\ model_calls' = 0
        /\ scan_calls' = 1
        /\ UNCHANGED <<api_key, client, processed_claims, next_uuid>>

\* One iteration of the loop of background_scan.
BackgroundAppend ==
    \E t \in 1..Len(background_tasks) :
        /\ background_tasks[t].pc = "loop"
        /\ processed_claims' = AppendScanned(processed_claims, background_tasks[t], next_uuid)
        /\ next_uuid' = next_uuid + 1
        /\ background_tasks' =
               [background_tasks EXCEPT ![t] = NextIteration(@, next_uuid)]
        /\ op' = "background_scan"
        /\ args' = [task |-> t]
        /\ ret' = None
        /\ model_calls' = 0
        /\ scan_calls' = 0
        /\ UNCHANGED <<api_key, client>>

\* The submission made while scans run.
BackgroundRequests == {[encoding |-> "form", body |-> FormBody(Some("Test claim"), None, None)]}

\* POST /api/verify beside the background scans.
VerifyClaimBeside ==
    \E request \in BackgroundRequests :
        /\ Len(processed_claims) < MaxClaims
        /\ VerifyRequest(request, NoFetch, NoSearch, ModelDown, NoAnalysis)

NextBackground ==
    \/ TriggerScan
    \/ BackgroundScan
    \/ BackgroundAppend
    \/ VerifyClaimBeside
    \/ GetClaims
    \/ CheckCrisis

\* The server with scans triggered: every interleaving of the requests with
\* the steps of the background scans.
SpecBackground == Init /\ [][NextBackground]_vars

IsPrefix(s, t) == Len(s) <= Len(t) /\ SubSeq(t, 1, Len(s)) = s

\* C11: the processed-claim list is append-only and in insertion order: every
\* step of a verify submission, a background scan or another endpoint leaves
\* the list as it was a prefix of the list as it is, so the list read at one
\* moment is a prefix of the list read at any later one; and the list-claims
\* endpoint returns exactly the list.
C11_AppendOnly ==
    [][/\ IsPrefix(processed_claims, processed_claims')
       /\ op' = "get_claims" => ret'.claims = processed_claims']_vars

\* The list read after a scan stored a headline, a submission was verified
\* and the same scan stored its second headline.
C11_Witness ==
    /\ op = "get_claims"
    /\ Len(ret.claims) = 3
    /\ ret.claims[1].text = "Flood warning"
    /\ ret.claims[1].id = Some(1)
    /\ ret.claims[2].text = "Test claim"
    /\ ret.claims[2].source = None
    /\ ret.claims[2].id = Some(2)
    /\ ret.claims[3].text = "Test claim"
    /\ ret.claims[3].source # None
    /\ ret.claims[3].id = Some(3)

\* Every background scan triggered has returned.
AllFinished ==
    \A t \in 1..Len(background_tasks) : background_tasks[t].pc = "done"

Occurrences(claim) ==
    Cardinality({k \in 1..Len(processed_claims) : processed_claims[k] = claim})

\* C12: in every interleaving of verify requests with the appends of the
\* background scans no append is lost or duplicated: once every scan has
\* finished, each claim a scan appended and the claim of the request just
\* verified is in the list exactly once, and the list has one entry per id
\* handed out, the ids pairwise distinct.
C12_NoLostAppend ==
    AllFinished =>
        /\ \A t \in 1..Len(background_tasks) :
               \A j \in 1..Len(background_tasks[t].new_claims) :
                   Occurrences(background_tasks[t].new_claims[j]) = 1
        /\ (op = "verify_claim" /\ ret.claim # None) => Occurrences(ret.claim[1]) = 1
        /\ Len(processed_claims) = next_uuid - 1
        /\ \A k \in 1..Len(processed_claims) :
               /\ processed_claims[k].id # None
               /\ processed_claims[k].id[1] \in 1..(next_uuid - 1)
               /\ \A l \in 1..Len(processed_claims) :
                      k # l => processed_claims[k].id # processed_claims[l].id

\* Two scans of two headlines each and a verify request, their appends
\* interleaved, all finished.
C12_Witness ==
    /\ AllFinished
    /\ Len(background_tasks) = 2
    /\ Len(processed_claims) = 5
    /\ processed_claims[1] = background_tasks[1].new_claims[1]
    /\ processed_claims[2].source = None
    /\ processed_claims[3] = background_tasks[2].new_claims[1]
    /\ processed_claims[4] = background_tasks[1].new_claims[2]
    /\ processed_claims[5] = background_tasks[2].new_claims[2]

\* The server with scans triggered, where a queued task is started and a
\* started scan goes on: Starlette runs each task once its response is sent,
\* the pool gives the thread its turn, and the feed answers or fails.
FairSpecBackground ==
    /\ SpecBackground
    /\ WF_background_tasks(BackgroundScan)
    /\ WF_background_tasks(BackgroundAppend)

\* Task t has returned and each claim it discovered, at least one, is in the
\* list once, under an id no other entry carries.
ScanStored(t) ==
    /\ t <= Len(background_tasks)
    /\ background_tasks[t].pc = "done"
    /\ Len(background_tasks[t].new_claims) >= 1
    /\ \A j \in 1..Len(background_tasks[t].new_claims) :
           LET claim == background_tasks[t].new_claims[j] IN
           /\ claim.id # None
           /\ Occurrences(claim) = 1
           /\ \A k \in 1..Len(processed_claims) :
                  processed_claims[k].id = claim.id => processed_claims[k] = claim

\* Task t returns in this step.
Returns(t) ==
    /\ background_tasks[t].pc # "done"
    /\ background_tasks'[t].pc = "done"

\* C13: a triggered scan is fire-and-forget.  trigger_scan answers with its
\* acknowledgement while the scan it queued has not started and the list is
\* as it was; every scan queued eventually returns with each claim it
\* discovered stored under a newly assigned id; and the list, which never
\* gets shorter, gets longer in the step in which a scan returns, so it has
\* grown since the trigger once the scan is done.
C13_FireAndForget ==
    /\ [][op' = "trigger_scan" =>
            /\ ret' = [message |-> "Scan initiated for " \o args'.request.source_url]
            /\ processed_claims' = processed_claims
            /\ background_tasks'[Len(background_tasks')].pc = "queued"]_vars
    /\ [][/\ Len(processed_claims') >= Len(processed_claims)
          /\ \A t \in 1..Len(background_tasks) :
                 Returns(t) => Len(processed_claims') > Len(processed_claims)]_vars
    /\ \A t \in 1..MaxTasks : (Len(background_tasks) >= t) ~> ScanStored(t)

\* A scan of two headlines has returned, both stored, while a second scan
\* triggered since is still queued.
C13_Witness ==
    /\ op = "background_scan"
    /\ Len(background_tasks) = 2
    /\ ScanStored(1)
    /\ Len(background_tasks[1].new_claims) = 2
    /\ background_tasks[2].pc = "queued"
    /\ Len(processed_claims) = 2

\* C14: the crisis check scans afresh exactly when the processed-claim list
\* is empty at the request, and then evaluates what the scan returned; with
\* a claim stored it issues no scan and evaluates the stored claims, also
\* when none of them carries a keyword.
C14_ScanOnlyWhenEmpty ==
    op = "check_crisis" =>
        IF processed_claims = <<>>
        THEN /\ scan_calls = 1
             /\ \E feed \in ServerFeedOutcomes : ret = detect_crisis(scan(api_key, feed))
        ELSE /\ scan_calls = 0
             /\ ret = detect_crisis(processed_claims)

\* A crisis check with one claim stored that carries no keyword: no scan, no
\* alert.
C14_Witness ==
    /\ op = "check_crisis"
    /\ Len(processed_claims) = 1
    /\ processed_claims[1].text = "Test claim"
    /\ scan_calls = 0
    /\ ret.crisis_detected = FALSE
    /\ ret.alerts = <<>>

\* C15 as claimed: for every combination of text, link and image submitted
\* to the verification endpoint, the response carries the enriched claim and
\* its score exactly when the submission held a text or a link, and an image
\* analysis exactly when it held an image; the claim carried is the one
\* stored, under the submitted text when there is one.
C15_ResponseParts ==
    op = "verify_claim" =>
        LET body == args.request.body IN
        /\ ret.claim # None <=> (Truthy(body.text) \/ Truthy(body.link))
        /\ ret.score # None <=> (Truthy(body.text) \/ Truthy(body.link))
        /\ ret.image_analysis # None <=> body.image # None
        /\ ret.claim # None =>
               /\ ret.claim[1] = processed_claims[Len(processed_claims)]
               /\ Truthy(body.text) => ret.claim[1].text = body.text[1]

\* ------------------------------------------------ the agents, call by call

\* One call of scan, scan_by_category, verify or score on inputs drawn in the
\* initial state.
InitAgents == InitScan \/ InitVerify \/ InitScore

NextAgents == Scan \/ ScanByCategory \/ Verify \/ Score

SpecAgents == InitAgents /\ [][NextAgents]_vars

\* C16: a claim's evidence only grows through verify and score: the evidence
\* the claim had before verify is an unchanged prefix of its evidence after
\* it (nothing removed, reordered or edited), and score leaves the evidence
\* exactly as it was, adding none.
C16_EvidenceOnlyGrows ==
    /\ op = "verify" => IsPrefix(args.claim.evidence, ret.claim.evidence)
    /\ op = "score" => ret.claim.evidence = args.claim.evidence

\* A claim that came with an entry of the feed, verified with a link, an
\* image and a search: the entry is still first, four follow it.
C16_Witness ==
    /\ op = "verify"
    /\ args.claim.evidence = <<FeedEvidence>>
    /\ Len(ret.claim.evidence) = 5
    /\ ret.claim.evidence[1] = FeedEvidence
    /\ ret.claim.evidence[5].source = "Search Error"

\* C17 as claimed: after scoring, the verification endpoint sets the status
\* of the claim from the verdict (VERIFIED gives verified, FALSE gives false,
\* MIXED and UNVERIFIED give unverified), and every status it gives a stored
\* claim is one the status field of Claim permits.
C17_StatusNarrowed ==
    (op = "verify_claim" /\ ret.claim # None) =>
        LET verdict == ret.score[1].verdict
            status == ret.claim[1].status
        IN  /\ verdict = "VERIFIED" => status = "verified"
            /\ verdict = "FALSE" => status = "false"
            /\ verdict \in {"MIXED", "UNVERIFIED"} => status = "unverified"
            /\ status \in ClaimStatuses
            /\ \A k \in 1..Len(processed_claims) :
                   processed_claims[k].status \in ClaimStatuses

\* C18 as claimed: whenever verify is given a link and a claim whose text is
\* empty, the claim it returns has the placeholder text that refers to the
\* link, whether the fetch of the link succeeded or failed.
C18_PlaceholderText ==
    (op = "verify" /\ Truthy(args.link) /\ args.claim.text = "") =>
        ret.claim.text = "Check content from " \o args.link[1]

\* C19: no pipeline stage lets a collaborator's failure escape: however the
\* feed call, the link fetch, the page parse, the web search and the model
\* call fail, also after some results were processed, scan,
\* scan_by_category, verify and score return a value and raise nothing.
C19_NothingEscapes ==
    /\ op \in {"scan", "scan_by_category"} =>
           /\ FetchClaims(api_key, args.feed).escaped = ""
           /\ Len(ret) >= 1
    /\ op = "verify" => ret.raised = ""
    /\ op = "score" =>
           /\ ret.raised = ""
           /\ ret.response.verdict \in Verdicts

\* A verify call whose page does not parse and whose search fails on its
\* second result: an error entry for the link, the first result, a search
\* error, and a claim returned.
C19_Witness ==
    /\ op = "verify"
    /\ args.fetch.raises = "ParserError"
    /\ args.search.raises = ""
    /\ Len(args.search.results) = 2
    /\ Len(Appended) = 3
    /\ Appended[1].content = "Error processing link: unknown markup"
    /\ Appended[2].source = "Flood report"
    /\ Appended[3].source = "Search Error"
    /\ ret.raised = ""

\* ------------------------------------------- main.py, the other endpoints

\* The bodies POST /api/score is sent: ScoreRequest(claim_text, evidence).
ScoreRequests ==
    [claim_text : {"Test claim", "Major earthquake reported"},
     evidence : {<<>>, <<FeedEvidence>>}]

\* `Claim(text=request.claim_text, evidence=request.evidence)`: the temporary
\* claim of score_claim, with the defaults of the fields not given.
TemporaryClaim(request) ==
    Claim(None, request.claim_text, None, "unverified", request.evidence)

\* POST /api/score: the response of score_agent.score, or the 500 answer
\* for an exception score lets through.
ScoreClaim ==
    \E request \in ScoreRequests, model \in ServerModelOutcomes :
        LET scored == score(TemporaryClaim(request), client, model)
        IN  \* without a client the model is not asked
            /\ client \/ model = ModelDown
            /\ op' = "score_claim"
            /\ args' = [request |-> request]
            /\ ret' = IF scored.raised = ""
                      THEN [status_code |-> 200, body |-> Some(scored.response)]
                      ELSE [status_code |-> 500, body |-> None]
            /\ model_calls' = scored.calls
            /\ scan_calls' = 0
            /\ UNCHANGED server

\* GET /api/news/{category}: category, count and articles of
\* scan_by_category, or HTTPException(500) for an exception it lets through.
GetNewsByCategory ==
    \E category \in Categories, feed \in ServerFeedOutcomes :
        LET claims == scan_by_category(api_key, category, feed)
        IN  \* without a key the feed is not asked
            /\ Truthy(api_key) \/ feed = NoFeed
            /\ op' = "get_news_by_category"
            /\ args' = [category |-> category]
            /\ ret' = IF FetchClaims(api_key, feed).escaped = ""
                      THEN [status_code |-> 200, category |-> category,
                            count |-> Len(claims), articles |-> claims]
                      ELSE [status_code |-> 500, category |-> category,
                            count |-> 0, articles |-> <<>>]
            /\ model_calls' = 0
            /\ scan_calls' = 0
            /\ UNCHANGED server

NextEndpoints ==
    \/ TriggerScan
    \/ BackgroundScan
    \/ BackgroundAppend
    \/ VerifyClaimBeside
    \/ GetClaims
    \/ CheckCrisis
    \/ ScoreClaim
    \/ GetNewsByCategory

\* The server with every endpoint that reads or writes processed_claims or
\* runs an agent of the pipeline, and the background scans beside them.
SpecEndpoints == Init /\ [][NextEndpoints]_vars

\* The endpoints that only read.
ReadOnlyOps == {"check_crisis", "get_news_by_category", "score_claim", "get_claims"}

\* C21: the crisis check (the fresh scan it performs on an empty list
\* included), the category-news fetch, the score endpoint and the list-claims
\* endpoint leave processed_claims unchanged; a step that changes the list is
\* a verify submission or a background scan, and it adds to the list; a
\* crisis check on an empty list scans, every time.
C21_ReadOnlyEndpoints ==
    /\ [][op' \in ReadOnlyOps => processed_claims' = processed_claims]_vars
    /\ [][processed_claims' # processed_claims =>
            /\ op' \in {"verify_claim", "background_scan"}
            /\ Len(processed_claims') = Len(processed_claims) + 1
            /\ IsPrefix(processed_claims, processed_claims')]_vars
    /\ [][(op' = "check_crisis" /\ processed_claims = <<>>) =>
            /\ scan_calls' = 1
            /\ processed_claims' = <<>>]_vars

\* A crisis check on the empty list: it scanned, the scan gave the
\* earthquake claim, the alert is raised, and nothing was stored, so the
\* next check finds the list empty again.
C21_Witness ==
    /\ op = "check_crisis"
    /\ processed_claims = <<>>
    /\ scan_calls = 1
    /\ ret.crisis_detected = TRUE
    /\ Len(background_tasks) = 0

\* ------------------------------------ main.py, what the list comes to hold

\* Submissions beside the scans: a text, a link, an image alone, and the
\* text as a JSON body.
StoringRequests ==
    {[encoding |-> "form", body |-> FormBody(Some("Test claim"), None, None)],
     [encoding |-> "form", body |-> FormBody(None, Some("http://site.example/p"), None)],
     [encoding |-> "form", body |-> FormBody(None, None, Some("PNG"))],
     [encoding |-> "json", body |-> FormBody(Some("Test claim"), None, None)]}

\* POST /api/verify beside the background scans, with every verdict the
\* model gives.
VerifyClaimScored ==
    \E request \in StoringRequests, fetch \in ServerFetchOutcomes,
       search \in ServerSearchOutcomes, model \in ServerModelOutcomes :
        LET text == FormParam(request, "text")
            link == FormParam(request, "link")
        IN  /\ Len(processed_claims) < MaxClaims
            \* a collaborator the request does not reach has no outcome to vary
            /\ fetch = NoFetch <=> ~Truthy(link)
            /\ search = NoSearch <=> ~(Truthy(text) \/ Truthy(link))
            /\ ((Truthy(text) \/ Truthy(link)) /\ client) \/ model = ModelDown
            /\ VerifyRequest(request, fetch, search, model, NoAnalysis)

NextStore ==
    \/ TriggerScan
    \/ BackgroundScan
    \/ BackgroundAppend
    \/ VerifyClaimScored

\* The writers of processed_claims, interleaved.
SpecStore == Init /\ [][NextStore]_vars

\* `if text or link:` on the parameters as the request binds them.
HandedTextOrLink(request) ==
    Truthy(FormParam(request, "text")) \/ Truthy(FormParam(request, "link"))

====
